---- MODULE Spec2Model ----
(***************************************************************************)
(* A model of fchat3-log-lib: the record codec (structs.rs), the forward   *)
(* and reverse readers and the index-building Writer (lib.rs).             *)
(*                                                                         *)
(* The crate root (lib.rs) declares only `pub mod structs`, so the codec   *)
(* that is compiled and tested is the one of structs.rs; fchat_message.rs, *)
(* fchat_index.rs and error.rs are not part of the build.                  *)
(*                                                                         *)
(* Streams are byte sequences with a 0-based cursor.  A stream accepts     *)
(* every write in full and fails a read only by running out of bytes       *)
(* (files and in-memory buffers, as in the tests).                         *)
(*                                                                         *)
(* 64-bit quantities whose range matters (the i64 timestamp of a           *)
(* NaiveDateTime) are kept as two limbs [hi, lo] of value hi * 2^24 + lo   *)
(* with lo in 0 .. 2^24 - 1.                                               *)
(***************************************************************************)
EXTENDS Integers, Sequences, FiniteSets, TLC

VARIABLES
    msg,        \* codec: the Message handed to write_to_buf
    stream,     \* codec: the byte stream written to and read from
    start,      \* codec: length of the stream before the write
    wres,       \* codec: result of write_to_buf ("none" before the call)
    flip,       \* codec: [at, old] of the byte changed, or NoFlip
    res,        \* codec: result of read_from_buf, or NoRes
    pc,         \* codec: "new", "written", "encfail", "flipped", "read"
    szin,       \* sized: the lengths and field values of the input
    szout,      \* sized: summary of the result, or NoSized
    log,        \* the log file
    msgs,       \* the Messages whose records make up the log, in order
    phase,      \* "idle", "build" (the log is being produced), "damaged" or "read"
    fpos,       \* forward reader: cursor of its stream
    fitems,     \* forward reader: the items next() has yielded so far
    rpos,       \* reverse reader: cursor of its stream
    ritems,     \* reverse reader: the items next() has yielded so far
    rnone,      \* reverse reader: how often next() has returned None
    cpos,       \* copy loop: cursor of the stream read
    copy,       \* copy loop: the stream written
    cstatus,    \* copy loop: "Ok" or the error that ended it
    idx,        \* the index file
    index,      \* Writer: FChatWriter.index of the Writer returned, or NoIndex
    wstatus,    \* Writer: result of the last FChatWriter::new ("none" before)
    wpath,      \* Writer: the branch of parse_idx it took
    wcount,     \* Writer: number of records in the log at that call
    wname,      \* Writer: FChatWriter.fallback_name, the name it was given
    ixin,       \* index codec: the FChatIndex handed to the writing loop
    ixbuf,      \* index codec: the index stream
    ixw,        \* index codec: result of writing header and entries
    ixcut,      \* index codec: number of bytes the stream lost at its end
    ixentry,    \* index codec: result of FChatIndexOffset::read_from_buf
    ixall,      \* index codec: result of FChatIndex::from_buf
    ixpc        \* index codec: "new", "failed", "written" or "cut"

codecVars == <<msg, stream, start, wres, flip, res, pc>>

sizedVars == <<szin, szout>>

logVars == <<log, msgs, phase>>

readerVars == <<fpos, fitems, rpos, ritems, rnone, cpos, copy, cstatus>>

writerVars == <<idx, index, wstatus, wpath, wcount, wname>>

indexVars == <<ixin, ixbuf, ixw, ixcut, ixentry, ixall, ixpc>>

vars == <<codecVars, sizedVars, logVars, readerVars, writerVars, indexVars>>

-----------------------------------------------------------------------------
(* Bounds of the model *)

\* longest sender / body text (in bytes) of the enumerated Messages
MaxStrLen == 2

\* most records in a log
MaxRecords == 3

\* how many failed reads the forward reader is asked for
MaxErrItems == 2

\* how many times the reverse reader is called after it returned None
MaxNone == 2

\* how many bytes a file loses at its end, at most
MaxLost == 3

-----------------------------------------------------------------------------
(* Wide integers *)

Limb == 2^24

Wide(hi, lo) == [hi |-> hi, lo |-> lo]

\* the wide form of a natural number below 2^31
WideOf(n) == Wide(n \div Limb, n % Limb)

\* u32::try_from(i64): succeeds exactly on 0 .. 2^32 - 1
FitsU32(w) == w.hi >= 0 /\ w.hi < 256

\* a sender length that is cast to u8 without a check (`len() as u8`)
FitsU8_unchecked(n) == TRUE

\* u8::try_from(usize)
FitsU8(n) == n >= 0 /\ n < 256

\* a length that is cast to u16 without a check (`len() as u16`)
FitsU16_unchecked(n) == TRUE

\* u16::try_from(usize)
FitsU16(n) == n >= 0 /\ n < 65536

-----------------------------------------------------------------------------
(* byteorder: little-endian integers on a stream *)

Avail(buf, pos, n) == pos + n <= Len(buf)

Bytes(buf, pos, n) == SubSeq(buf, pos + 1, pos + n)

write_u32_le(w) ==
    << w.lo % 256, (w.lo \div 256) % 256, w.lo \div 65536, w.hi % 256 >>

\* a reader that takes the four bytes most-significant first
read_u32_be(buf, pos) ==
    Wide(buf[pos + 1], buf[pos + 4] + 256 * buf[pos + 3] + 65536 * buf[pos + 2])

read_u32_le(buf, pos) ==
    Wide(buf[pos + 4], buf[pos + 1] + 256 * buf[pos + 2] + 65536 * buf[pos + 3])

write_u16_le(n) == << n % 256, n \div 256 >>

\* a reader that takes the two bytes most-significant first
read_u16_be(buf, pos) == buf[pos + 2] + 256 * buf[pos + 1]

read_u16_le(buf, pos) == buf[pos + 1] + 256 * buf[pos + 2]

-----------------------------------------------------------------------------
(* String::from_utf8: well-formedness of a byte sequence as UTF-8 *)

IsCont(b) == b >= 128 /\ b <= 191

RECURSIVE Utf8From(_, _)
Utf8From(s, i) ==
    IF i > Len(s) THEN TRUE
    ELSE LET b == s[i]
             has(k) == i + k <= Len(s)
         IN  IF b < 128 THEN Utf8From(s, i + 1)
             ELSE IF b >= 194 /\ b <= 223
                  THEN has(1) /\ IsCont(s[i + 1]) /\ Utf8From(s, i + 2)
             ELSE IF b >= 224 /\ b <= 239
                  THEN /\ has(2)
                       /\ IsCont(s[i + 1]) /\ IsCont(s[i + 2])
                       /\ (b = 224 => s[i + 1] >= 160)
                       /\ (b = 237 => s[i + 1] <= 159)
                       /\ Utf8From(s, i + 3)
             ELSE IF b >= 240 /\ b <= 244
                  THEN /\ has(3)
                       /\ IsCont(s[i + 1]) /\ IsCont(s[i + 2]) /\ IsCont(s[i + 3])
                       /\ (b = 240 => s[i + 1] >= 144)
                       /\ (b = 244 => s[i + 1] <= 143)
                       /\ Utf8From(s, i + 4)
             ELSE FALSE

\* all-ASCII input is accepted without walking the sequence recursively
Utf8Valid(s) == (\A i \in 1..Len(s) : s[i] < 128) \/ Utf8From(s, 1)

-----------------------------------------------------------------------------
(* FChatMessageType *)

MessageTypes == {"Message", "Action", "Ad", "Roll", "Warn", "Event"}

as_byte(t) ==
    CASE t = "Message" -> 0
      [] t = "Action"  -> 1
      [] t = "Ad"      -> 2
      [] t = "Roll"    -> 3
      [] t = "Warn"    -> 4
      [] t = "Event"   -> 5

\* Ok(variant) for 0..5, Err(UnknownMessageType) otherwise
from_byte(byte) ==
    CASE byte = 0 -> [ok |-> TRUE, type |-> "Message"]
      [] byte = 1 -> [ok |-> TRUE, type |-> "Action"]
      [] byte = 2 -> [ok |-> TRUE, type |-> "Ad"]
      [] byte = 3 -> [ok |-> TRUE, type |-> "Roll"]
      [] byte = 4 -> [ok |-> TRUE, type |-> "Warn"]
      [] byte = 5 -> [ok |-> TRUE, type |-> "Event"]
      [] OTHER    -> [ok |-> FALSE, type |-> "Unknown"]

-----------------------------------------------------------------------------
(* FChatMessage *)

FChatMessage(secs, nanos, sender, type, text) ==
    [datetime |-> [secs |-> secs, nanos |-> nanos],
     sender   |-> sender,
     body     |-> [type |-> type, text |-> text]]

NoMessage == [datetime |-> [secs |-> Wide(0, 0), nanos |-> 0],
              sender   |-> <<>>,
              body     |-> [type |-> "None", text |-> <<>>]]

\* a length that counts the reverse feed itself
bytes_used_with_feed(m) == 4 + 1 + 1 + Len(m.sender) + 2 + Len(m.body.text) + 2

bytes_used(m) == 4 + 1 + 1 + Len(m.sender) + 2 + Len(m.body.text)

\* From<std::io::Error> for ParseError
ParseError_from_io(kind) == IF kind = "UnexpectedEof" THEN "EOF" ELSE "IOError"

\* a write_to_buf that converts each field only when it is about to write it
write_to_buf_lazy_checks(m, buf) ==
    LET b1 == buf \o write_u32_le(m.datetime.secs) \o << as_byte(m.body.type) >>
        b2 == b1 \o << Len(m.sender) >> \o m.sender
        b3 == b2 \o write_u16_le(Len(m.body.text)) \o m.body.text
    IN  IF ~FitsU32(m.datetime.secs) THEN [status |-> "ConversionError", buf |-> buf]
        ELSE IF ~FitsU8(Len(m.sender)) THEN [status |-> "ConversionError", buf |-> b1]
        ELSE IF ~FitsU16(Len(m.body.text)) THEN [status |-> "ConversionError", buf |-> b2]
        ELSE IF ~FitsU16(bytes_used(m)) THEN [status |-> "ConversionError", buf |-> b3]
        ELSE [status |-> "Ok", buf |-> b3 \o write_u16_le(bytes_used(m))]

\* write_to_buf: the four range checks, then the seven writes
write_to_buf(m, buf) ==
    LET epoch_ok  == FitsU32(m.datetime.secs)
        sender_ok == FitsU8(Len(m.sender))
        body_ok   == FitsU16(Len(m.body.text))
        log_ok    == FitsU16(bytes_used(m))
    IN  IF ~(epoch_ok /\ sender_ok /\ body_ok /\ log_ok)
        THEN [status |-> "ConversionError", buf |-> buf]
        ELSE [status |-> "Ok",
              buf |-> buf \o write_u32_le(m.datetime.secs)
                          \o << as_byte(m.body.type) >>
                          \o << Len(m.sender) >>
                          \o m.sender
                          \o write_u16_le(Len(m.body.text))
                          \o m.body.text
                          \o write_u16_le(bytes_used(m))]

\* a frame check that accepts every reverse feed
frame_unchecked(reverse_feed, actual_length) == TRUE

\* `reverse_feed != actual_length` negated: the frame is intact
frame_matches(reverse_feed, actual_length) == reverse_feed = actual_length

ReadErr(status, buf) ==
    [status |-> status, msg |-> NoMessage, pos |-> Len(buf),
     expected |-> 0, found |-> 0]

\* read_from_buf at cursor pos; a failed read_exact leaves the cursor at the
\* end of the stream
read_from_buf(buf, pos) ==
    IF ~Avail(buf, pos, 4) THEN ReadErr(ParseError_from_io("UnexpectedEof"), buf)
    ELSE
    LET datetime == [secs |-> read_u32_le(buf, pos), nanos |-> 0]
        p1 == pos + 4
    IN
    IF ~Avail(buf, p1, 1) THEN ReadErr(ParseError_from_io("UnexpectedEof"), buf)
    ELSE
    LET message_type == buf[p1 + 1]
        p2 == p1 + 1
    IN
    IF ~Avail(buf, p2, 1) THEN ReadErr(ParseError_from_io("UnexpectedEof"), buf)
    ELSE
    LET sender_length == buf[p2 + 1]
        p3 == p2 + 1
    IN
    IF ~Avail(buf, p3, sender_length)
    THEN ReadErr(ParseError_from_io("UnexpectedEof"), buf)
    ELSE
    LET sender_raw == Bytes(buf, p3, sender_length)
        p4 == p3 + sender_length
    IN
    IF ~Utf8Valid(sender_raw)
    THEN [ReadErr("UTF8ConversionError", buf) EXCEPT !.pos = p4]
    ELSE
    IF ~Avail(buf, p4, 2) THEN ReadErr(ParseError_from_io("UnexpectedEof"), buf)
    ELSE
    LET message_length == read_u16_le(buf, p4)
        p5 == p4 + 2
    IN
    IF ~Avail(buf, p5, message_length)
    THEN ReadErr(ParseError_from_io("UnexpectedEof"), buf)
    ELSE
    LET message_raw == Bytes(buf, p5, message_length)
        p6 == p5 + message_length
    IN
    IF ~Utf8Valid(message_raw)
    THEN [ReadErr("UTF8ConversionError", buf) EXCEPT !.pos = p6]
    ELSE
    LET type == from_byte(message_type) IN
    IF ~type.ok
    THEN [ReadErr("UnknownMessageTypeError", buf) EXCEPT !.pos = p6,
                                                         !.found = message_type]
    ELSE
    LET fchat_message == [datetime |-> datetime,
                          sender   |-> sender_raw,
                          body     |-> [type |-> type.type, text |-> message_raw]]
    IN
    IF ~Avail(buf, p6, 2) THEN ReadErr(ParseError_from_io("UnexpectedEof"), buf)
    ELSE
    LET reverse_feed  == read_u16_le(buf, p6)
        actual_length == bytes_used(fchat_message)
        p7 == p6 + 2
    IN
    IF ~FitsU16(actual_length)
    THEN [ReadErr("ConversionError", buf) EXCEPT !.pos = p7]
    ELSE IF ~frame_matches(reverse_feed, actual_length)
    THEN [status |-> "MessageLengthError", msg |-> fchat_message, pos |-> p7,
          expected |-> reverse_feed, found |-> actual_length]
    ELSE [status |-> "Ok", msg |-> fchat_message, pos |-> p7,
          expected |-> 0, found |-> 0]

-----------------------------------------------------------------------------
(* Inputs of the codec specification *)

RECURSIVE SeqsUpTo(_, _)
SeqsUpTo(S, n) ==
    IF n = 0 THEN { <<>> }
    ELSE LET shorter == SeqsUpTo(S, n - 1)
         IN  shorter \cup { Append(s, b) : s \in shorter, b \in S }

\* Rust Strings: valid UTF-8 only
Strings(S, n) == { s \in SeqsUpTo(S, n) : Utf8Valid(s) }

\* 'A'
SenderBytes == {65}

\* NUL and the two bytes of U+00E9
BodyBytes == {0, 195, 169}

\* 1970-01-01T00:00:00, 1970-01-02T00:00:01, 2106-02-07T06:28:15 (2^32 - 1)
GoodSecs == { Wide(0, 0), Wide(0, 86401), Wide(255, Limb - 1) }

\* 1969-12-31T23:59:59 and 2^32
BadSecs == { Wide(-1, Limb - 1), Wide(256, 0) }

CodecTypes == {"Message", "Event"}

CodecMessages ==
    { FChatMessage(s, 0, snd, t, txt) :
        s \in GoodSecs \cup BadSecs, snd \in Strings(SenderBytes, MaxStrLen),
        t \in CodecTypes, txt \in Strings(BodyBytes, MaxStrLen) }
    \cup
    { FChatMessage(Wide(0, 86401), 500000000, <<65>>, "Message", txt) :
        txt \in Strings(BodyBytes, MaxStrLen) }

\* the values a changed byte takes
FlipValues == 0..255

NoFlip == [at |-> 0, old |-> 0]

NoRes == [status |-> "none", msg |-> NoMessage, pos |-> 0,
          expected |-> 0, found |-> 0]

NoSizedIn == [op |-> "none"]

NoSized == [status |-> "none"]

CodecIdle ==
    /\ msg = NoMessage /\ stream = <<>> /\ start = 0 /\ wres = "none"
    /\ flip = NoFlip /\ res = NoRes /\ pc = "idle"

SizedIdle == szin = NoSizedIn /\ szout = NoSized

LogIdle == log = <<>> /\ msgs = <<>> /\ phase = "idle"

ReaderIdle ==
    /\ fpos = 0 /\ fitems = <<>>
    /\ rpos = 0 /\ ritems = <<>> /\ rnone = 0
    /\ cpos = 0 /\ copy = <<>> /\ cstatus = "Ok"

NoIndex == [name |-> <<>>, offsets |-> <<>>, some |-> FALSE]

NoName == [some |-> FALSE, name |-> <<>>]

SomeName(n) == [some |-> TRUE, name |-> n]

WriterIdle ==
    /\ idx = <<>> /\ index = NoIndex /\ wstatus = "none"
    /\ wpath = "none" /\ wcount = 0 /\ wname = NoName

NoEntryRes == [status |-> "none", pos |-> 0, entry |-> <<>>]

NoAllRes == [status |-> "none", index |-> NoIndex]

IndexIdle ==
    /\ ixin = NoIndex /\ ixbuf = <<>> /\ ixw = "none" /\ ixcut = 0
    /\ ixentry = NoEntryRes /\ ixall = NoAllRes /\ ixpc = "idle"

-----------------------------------------------------------------------------
(* The codec specification: write one Message, optionally change one byte  *)
(* of the record, read it back.                                            *)

CodecInit ==
    /\ msg \in CodecMessages
    /\ stream \in { <<>>, <<7>> }
    /\ start = Len(stream)
    /\ wres = "none"
    /\ flip = NoFlip
    /\ res = NoRes
    /\ pc = "new"
    /\ SizedIdle /\ LogIdle /\ ReaderIdle /\ WriterIdle /\ IndexIdle

\* message.write_to_buf(&mut f)
CodecWrite ==
    /\ pc = "new"
    /\ LET r == write_to_buf(msg, stream)
       IN  /\ stream' = r.buf
           /\ wres' = r.status
           /\ pc' = IF r.status = "Ok" THEN "written" ELSE "encfail"
    /\ UNCHANGED <<indexVars, msg, start, flip, res, sizedVars, logVars, readerVars, writerVars>>

\* the environment changes one byte of the record
CodecFlip ==
    /\ pc = "written"
    /\ \E i \in (start + 1)..Len(stream), b \in FlipValues :
          /\ b # stream[i]
          /\ stream' = [stream EXCEPT ![i] = b]
          /\ flip' = [at |-> i - start, old |-> stream[i]]
    /\ pc' = "flipped"
    /\ UNCHANGED <<indexVars, msg, start, wres, res, sizedVars, logVars, readerVars, writerVars>>

\* f.seek(SeekFrom::Start(start)); FChatMessage::read_from_buf(&mut f)
CodecRead ==
    /\ pc \in {"written", "flipped"}
    /\ res' = read_from_buf(stream, start)
    /\ pc' = "read"
    /\ UNCHANGED <<indexVars, msg, stream, start, wres, flip, sizedVars, logVars, readerVars, writerVars>>

CodecNext == CodecWrite \/ CodecFlip \/ CodecRead

SpecCodec == CodecInit /\ [][CodecNext]_vars

-----------------------------------------------------------------------------
(* The sized specification: write_to_buf and read_from_buf on records at   *)
(* the limits of the length fields.  The texts are runs of 'A'; the state  *)
(* keeps the lengths and the result, not the bytes.                        *)

Fill(n) == [i \in 1..n |-> 65]

SizedSenderLens == {0, 255, 256, 300}

SizedBodyLens == {0, 65271, 65272, 65273, 65527, 65528, 65529, 65530, 65535, 65536}

SizedWriteInputs ==
    { [op |-> "write", secs |-> s, sender_len |-> sl, body_len |-> bl] :
        s \in GoodSecs \cup BadSecs, sl \in SizedSenderLens, bl \in SizedBodyLens }

\* a Message to append to a stream that holds one byte already
SizedAppendInputs ==
    { [op |-> "append", secs |-> s, sender_len |-> sl, body_len |-> bl] :
        s \in GoodSecs \cup BadSecs, sl \in SizedSenderLens, bl \in SizedBodyLens }

\* a raw record: the kind byte, the two length fields, the reverse feed as
\* found in the stream (0: the low 16 bits of the true length), and the
\* number of bytes missing at the end of the stream
SizedReadInputs ==
    { [op |-> "read", kind |-> k, sender_len |-> sl, body_len |-> bl,
       feed |-> IF f = 0 THEN (8 + sl + bl) % 65536 ELSE f, cut |-> c] :
        k \in {0, 5, 6}, sl \in {0, 255},
        bl \in {0, 1, 65272, 65527, 65528, 65535},
        f \in {0, 7, 65535}, c \in {0, 1, 3, 5, 7} }

RawRecord(in) ==
    LET full == << 1, 0, 0, 0, in.kind, in.sender_len >>
                \o Fill(in.sender_len)
                \o write_u16_le(in.body_len)
                \o Fill(in.body_len)
                \o write_u16_le(in.feed)
    IN  SubSeq(full, 1, Len(full) - in.cut)

SizedInit ==
    /\ szin \in SizedWriteInputs \cup SizedAppendInputs \cup SizedReadInputs
    /\ szout = NoSized
    /\ CodecIdle /\ LogIdle /\ ReaderIdle /\ WriterIdle /\ IndexIdle

\* message.write_to_buf(&mut f) on an empty stream
SizedWrite ==
    /\ szin.op = "write" /\ szout = NoSized
    /\ LET m == FChatMessage(szin.secs, 0, Fill(szin.sender_len), "Message",
                             Fill(szin.body_len))
           r == write_to_buf(m, <<>>)
           n == Len(r.buf)
       IN  szout' = [status |-> r.status,
                     len    |-> n,
                     feed   |-> IF n >= 2 THEN read_u16_le(r.buf, n - 2) ELSE 0]
    /\ UNCHANGED <<indexVars, szin, codecVars, logVars, readerVars, writerVars>>

\* message.write_to_buf(&mut f) at the end of a stream of one byte
SizedAppend ==
    /\ szin.op = "append" /\ szout = NoSized
    /\ LET m == FChatMessage(szin.secs, 0, Fill(szin.sender_len), "Message",
                             Fill(szin.body_len))
           r == write_to_buf(m, <<7>>)
       IN  szout' = [status |-> r.status,
                     len    |-> Len(r.buf),
                     head   |-> r.buf[1]]
    /\ UNCHANGED <<indexVars, szin, codecVars, logVars, readerVars, writerVars>>

\* FChatMessage::read_from_buf(&mut f) from position 0
SizedRead ==
    /\ szin.op = "read" /\ szout = NoSized
    /\ LET r == read_from_buf(RawRecord(szin), 0)
       IN  szout' = [status     |-> r.status,
                     pos        |-> r.pos,
                     expected   |-> r.expected,
                     found      |-> r.found,
                     type       |-> r.msg.body.type,
                     sender_len |-> Len(r.msg.sender),
                     body_len   |-> Len(r.msg.body.text)]
    /\ UNCHANGED <<indexVars, szin, codecVars, logVars, readerVars, writerVars>>

SizedNext == SizedWrite \/ SizedAppend \/ SizedRead

SpecSized == SizedInit /\ [][SizedNext]_vars

-----------------------------------------------------------------------------
(* lib.rs: the forward and the reverse reader *)

\* what next() yields: a ReaderResult
Item(r) == [status |-> r.status, msg |-> r.msg,
            expected |-> r.expected, found |-> r.found]

\* a reverse_seek that steps back over the record but not over its reverse feed
reverse_seek_short(buf, pos) ==
    IF pos - 2 < 0 THEN [ok |-> FALSE, pos |-> pos]
    ELSE IF ~Avail(buf, pos - 2, 2) THEN [ok |-> FALSE, pos |-> Len(buf)]
    ELSE LET reverse_feed == read_u16_le(buf, pos - 2)
         IN  IF pos - reverse_feed < 0
             THEN [ok |-> FALSE, pos |-> pos]
             ELSE [ok |-> TRUE, pos |-> pos - reverse_feed]

\* reverse_seek: seek -2, read the reverse feed, seek -2, seek -reverse_feed.
\* A seek before byte 0 fails and leaves the cursor where it was.
reverse_seek(buf, pos) ==
    IF pos - 2 < 0 THEN [ok |-> FALSE, pos |-> pos]
    ELSE IF ~Avail(buf, pos - 2, 2) THEN [ok |-> FALSE, pos |-> Len(buf)]
    ELSE LET reverse_feed == read_u16_le(buf, pos - 2)
         IN  IF pos - 2 - reverse_feed < 0
             THEN [ok |-> FALSE, pos |-> pos - 2]
             ELSE [ok |-> TRUE, pos |-> pos - 2 - reverse_feed]

\* a next() that does not seek back over the record it has read
reversed_next_no_rewind(buf, pos) ==
    LET s1 == reverse_seek(buf, pos) IN
    IF ~s1.ok THEN [some |-> FALSE, item |-> Item(NoRes), pos |-> s1.pos]
    ELSE
    LET result == read_from_buf(buf, s1.pos)
    IN  [some |-> TRUE, item |-> Item(result), pos |-> result.pos]

\* FChatMessageReaderReversed::next: [some, item, pos]
reversed_next(buf, pos) ==
    LET s1 == reverse_seek(buf, pos) IN
    IF ~s1.ok THEN [some |-> FALSE, item |-> Item(NoRes), pos |-> s1.pos]
    ELSE
    LET result == read_from_buf(buf, s1.pos)
        s2 == reverse_seek(buf, result.pos)
    IN  IF ~s2.ok THEN [some |-> FALSE, item |-> Item(NoRes), pos |-> s2.pos]
        ELSE [some |-> TRUE, item |-> Item(result), pos |-> s2.pos]

\* FChatMessageReader::next: always Some(read_from_buf(..))
forward_next(buf, pos) ==
    LET result == read_from_buf(buf, pos)
    IN  [some |-> TRUE, item |-> Item(result), pos |-> result.pos]

-----------------------------------------------------------------------------
(* The reader specification: a log of records is produced, then read by    *)
(* the forward reader, the reverse reader and the read-and-rewrite loop of *)
(* the tests, each on its own handle.                                      *)

\* S1, S1' and S2 of the scenarios, and a record with the largest timestamp
ReaderMessages ==
    { FChatMessage(Wide(0, 0), 0, <<65>>, "Message", <<72, 105>>),
      FChatMessage(Wide(0, 0), 0, <<65>>, "Action", <<33>>),
      FChatMessage(Wide(0, 1), 0, <<>>, "Event", <<>>),
      FChatMessage(Wide(255, Limb - 1), 0, <<195, 169>>, "Roll", <<0>>) }

ReaderInit ==
    /\ log = <<>> /\ msgs = <<>> /\ phase = "build"
    /\ ReaderIdle /\ CodecIdle /\ SizedIdle /\ WriterIdle /\ IndexIdle

\* the producer of the log appends one record
LogAppend(M) ==
    /\ phase = "build"
    /\ Len(msgs) < MaxRecords
    /\ \E m \in M :
          LET w == write_to_buf(m, log)
          IN  /\ w.status = "Ok"
              /\ log' = w.buf
              /\ msgs' = Append(msgs, m)
    /\ UNCHANGED phase

ReaderAppend ==
    /\ LogAppend(ReaderMessages)
    /\ UNCHANGED <<indexVars, readerVars, codecVars, sizedVars, writerVars>>

\* FChatMessageReader::new(f); FChatMessageReaderReversed::new(f), which
\* seeks to the end; the copy loop opens its input and an empty output
ReadersNew ==
    /\ phase \in {"build", "damaged"}
    /\ phase' = "read"
    /\ fpos' = 0 /\ fitems' = <<>>
    /\ rpos' = Len(log) /\ ritems' = <<>> /\ rnone' = 0
    /\ cpos' = 0 /\ copy' = <<>> /\ cstatus' = "Ok"
    /\ UNCHANGED <<indexVars, log, msgs, codecVars, sizedVars, writerVars>>

ErrItems(items) == Cardinality({ i \in 1..Len(items) : items[i].status # "Ok" })

\* one call of the forward reader's next()
ForwardNext ==
    /\ phase = "read"
    /\ ErrItems(fitems) < MaxErrItems
    /\ LET n == forward_next(log, fpos)
       IN  /\ fpos' = n.pos
           /\ fitems' = IF n.some THEN Append(fitems, n.item) ELSE fitems
    /\ UNCHANGED <<rpos, ritems, rnone, cpos, copy, cstatus>>
    /\ UNCHANGED <<indexVars, logVars, codecVars, sizedVars, writerVars>>

\* one call of the reverse reader's next()
ReverseNext ==
    /\ phase = "read"
    /\ rnone < MaxNone
    /\ Len(ritems) <= MaxRecords
    /\ LET n == reversed_next(log, rpos)
       IN  /\ rpos' = n.pos
           /\ ritems' = IF n.some THEN Append(ritems, n.item) ELSE ritems
           /\ rnone' = IF n.some THEN rnone ELSE rnone + 1
    /\ UNCHANGED <<fpos, fitems, cpos, copy, cstatus>>
    /\ UNCHANGED <<indexVars, logVars, codecVars, sizedVars, writerVars>>

\* one round of `while size > pos { read_from_buf(f_r)?.write_to_buf(f_w)? }`
CopyStep ==
    /\ phase = "read"
    /\ cstatus = "Ok"
    /\ Len(log) > cpos
    /\ LET r == read_from_buf(log, cpos)
           w == write_to_buf(r.msg, copy)
       IN  /\ cpos' = r.pos
           /\ IF r.status # "Ok"
              THEN cstatus' = r.status /\ copy' = copy
              ELSE cstatus' = w.status /\ copy' = w.buf
    /\ UNCHANGED <<fpos, fitems, rpos, ritems, rnone>>
    /\ UNCHANGED <<indexVars, logVars, codecVars, sizedVars, writerVars>>

ReaderNext ==
    ReaderAppend \/ ReadersNew \/ ForwardNext \/ ReverseNext \/ CopyStep

SpecReader == ReaderInit /\ [][ReaderNext]_vars

-----------------------------------------------------------------------------
(* chrono: calendar dates.  A NaiveDate is [year, month, day]. *)

\* seconds / 86400 on a wide value in 0 .. 2^32 - 1 (86400 = 128 * 675)
DayNumber(secs) == (secs.hi * 131072 + secs.lo \div 128) \div 675

\* the proleptic Gregorian date of a day count since 1970-01-01
civil_from_days(days) ==
    LET z   == days + 719468
        era == z \div 146097
        doe == z - era * 146097
        yoe == (doe - doe \div 1460 + doe \div 36524 - doe \div 146096) \div 365
        doy == doe - (365 * yoe + yoe \div 4 - yoe \div 100)
        mp  == (5 * doy + 2) \div 153
        d   == doy - (153 * mp + 2) \div 5 + 1
        m   == IF mp < 10 THEN mp + 3 ELSE mp - 9
        y   == yoe + era * 400
    IN  [year |-> IF m <= 2 THEN y + 1 ELSE y, month |-> m, day |-> d]

\* the day count since 1970-01-01 of a date
days_from_civil(date) ==
    LET y   == IF date.month <= 2 THEN date.year - 1 ELSE date.year
        era == y \div 400
        yoe == y - era * 400
        mp  == IF date.month > 2 THEN date.month - 3 ELSE date.month + 9
        doy == (153 * mp + 2) \div 5 + date.day - 1
        doe == yoe * 365 + yoe \div 4 - yoe \div 100 + doy
    IN  era * 146097 + doe - 719468

\* NaiveDateTime::date()
date_of(datetime) == civil_from_days(DayNumber(datetime.secs))

-----------------------------------------------------------------------------
(* FChatIndexOffset and FChatIndex.  The u64 offset is a wide value. *)

WideAdd(w, n) == LET t == w.lo + n IN Wide(w.hi + t \div Limb, t % Limb)

\* a shift of the two limbs on their own, losing the byte that crosses over
WideShr8_no_carry(w) == Wide(w.hi \div 256, w.lo \div 256)

\* offset >> 8
WideShr8(w) == Wide(w.hi \div 256, w.lo \div 256 + (w.hi % 256) * 65536)

RECURSIVE offset_bytes(_, _)
\* `for _ in 0..5 { write_u8(offset & 0xff); offset = offset >> 8 }`
offset_bytes(offset, n) ==
    IF n = 0 THEN <<>>
    ELSE << offset.lo % 256 >> \o offset_bytes(WideShr8(offset), n - 1)

\* FChatIndexOffset::write_to_buf
offset_write_to_buf(entry, buf) ==
    LET unix_days == days_from_civil(entry.date)
    IN  IF ~FitsU16(unix_days)
        THEN [status |-> "ConversionError", buf |-> buf]
        ELSE [status |-> "Ok",
              buf |-> buf \o write_u16_le(unix_days) \o offset_bytes(entry.offset, 5)]

\* FChatIndexOffset::read_from_buf: every short read is IOError(UnexpectedEof)
offset_read_from_buf(buf, pos) ==
    IF ~Avail(buf, pos, 2)
    THEN [status |-> "UnexpectedEof", pos |-> Len(buf), entry |-> <<>>]
    ELSE IF ~Avail(buf, pos + 2, 5)
    THEN [status |-> "UnexpectedEof", pos |-> Len(buf), entry |-> <<>>]
    ELSE LET unix_days == read_u16_le(buf, pos)
             b(n) == buf[pos + 3 + n]
         IN  [status |-> "Ok", pos |-> pos + 7,
              entry |-> [date   |-> civil_from_days(unix_days),
                         offset |-> Wide(b(3) + 256 * b(4),
                                         b(0) + 256 * b(1) + 65536 * b(2))]]

\* FChatIndex::write_header_to_buf
write_header_to_buf(name, buf) ==
    IF ~FitsU8(Len(name))
    THEN [status |-> "ConversionError", buf |-> buf]
    ELSE [status |-> "Ok", buf |-> buf \o << Len(name) >> \o name]

RECURSIVE read_offsets(_, _, _)
\* the loop of FChatIndex::from_buf: UnexpectedEof ends it
read_offsets(buf, pos, offsets) ==
    LET r == offset_read_from_buf(buf, pos)
    IN  IF r.status = "Ok"
        THEN read_offsets(buf, r.pos, Append(offsets, r.entry))
        ELSE offsets

\* FChatIndex::from_buf
from_buf(buf) ==
    IF ~Avail(buf, 0, 1) THEN [status |-> "IOError", index |-> NoIndex]
    ELSE LET name_length == buf[1] IN
    IF ~Avail(buf, 1, name_length) THEN [status |-> "IOError", index |-> NoIndex]
    ELSE LET name_raw == Bytes(buf, 1, name_length) IN
    IF ~Utf8Valid(name_raw)
    THEN [status |-> "UTF8ConversionError", index |-> NoIndex]
    ELSE [status |-> "Ok",
          index  |-> [name    |-> name_raw,
                      offsets |-> read_offsets(buf, 1 + name_length, <<>>),
                      some    |-> TRUE]]

-----------------------------------------------------------------------------
(* lib.rs: FChatWriter *)

\* get_message: Ok(message) is Some(message), every error is None
get_message(item) == [some |-> item.status = "Ok", msg |-> item.msg]

\* a comparison of the day of the month alone
day_differs(m, l) == m.day # l.day

\* the comparison that decides whether a Message starts a new index entry
date_differs(m, l) == m.year # l.year \/ m.month # l.month \/ m.day # l.day

\* an advance that leaves out the reverse feed
record_advance_no_feed(message) == bytes_used(message)

\* `current_offset += message.bytes_used() as u64 + 2`
record_advance(message) == bytes_used(message) + 2

RECURSIVE regenerate(_, _, _, _)
RECURSIVE regenerate_item(_, _, _, _)
\* the loop over FChatMessageReader in parse_idx: `reader.next()`
regenerate(buf, pos, offsets, current_offset) ==
    regenerate_item(buf, forward_next(buf, pos), offsets, current_offset)

\* the body of the loop on the item n the reader returned
regenerate_item(buf, n, offsets, current_offset) ==
    LET g == get_message(n.item)
    IN  IF ~g.some THEN offsets
        ELSE
        LET message  == g.msg
            do_write == IF offsets = <<>> THEN TRUE
                        ELSE date_differs(date_of(message.datetime),
                                          offsets[Len(offsets)].date)
            pushed   == IF do_write
                        THEN Append(offsets, [date   |-> date_of(message.datetime),
                                              offset |-> current_offset])
                        ELSE offsets
        IN  regenerate(buf, n.pos, pushed,
                       WideAdd(current_offset, record_advance(message)))

RECURSIVE write_offsets(_, _, _)
\* `for offset in &index.offsets { offset.write_to_buf(&mut idx_writer)? }`
write_offsets(offsets, k, buf) ==
    IF k > Len(offsets) THEN [status |-> "Ok", buf |-> buf]
    ELSE LET w == offset_write_to_buf(offsets[k], buf)
         IN  IF w.status # "Ok" THEN w ELSE write_offsets(offsets, k + 1, w.buf)

\* the end of parse_idx: the header and the entries go to the index file.
\* The BufWriter on the index file is flushed at the end, and by its drop
\* when a write fails.
write_index(new, idx_buf, path) ==
    LET h == write_header_to_buf(new.name, idx_buf)
        w == write_offsets(new.offsets, 1, h.buf)
    IN  IF h.status # "Ok"
        THEN [status |-> "IndexError", index |-> NoIndex, idx |-> h.buf,
              path |-> path]
        ELSE IF w.status # "Ok"
        THEN [status |-> "IndexError", index |-> NoIndex, idx |-> w.buf,
              path |-> path]
        ELSE [status |-> "Ok", index |-> new, idx |-> w.buf, path |-> path]

\* an index file that is emptied when it is opened (`truncate(true)`)
parsed_index_truncating(r, idx_buf) ==
    [status |-> IF r.status = "Ok" THEN "Ok" ELSE "IndexError",
     index |-> r.index, idx |-> <<>>, path |-> "parse"]

\* the outcome of FChatIndex::from_buf as parse_idx passes it on
parsed_index(r, idx_buf) ==
    [status |-> IF r.status = "Ok" THEN "Ok" ELSE "IndexError",
     index |-> r.index, idx |-> idx_buf, path |-> "parse"]

\* FChatWriter::parse_idx on the two files
parse_idx(log_buf, idx_buf, fallback_name) ==
    IF Len(idx_buf) > 0
    THEN parsed_index(from_buf(idx_buf), idx_buf)
    ELSE IF ~fallback_name.some
    THEN [status |-> "InadequateInformation", index |-> NoIndex,
          idx |-> idx_buf, path |-> "none"]
    ELSE IF Len(log_buf) > 0
    THEN write_index([name    |-> fallback_name.name,
                      offsets |-> regenerate(log_buf, 0, <<>>, Wide(0, 0)),
                      some    |-> TRUE],
                     idx_buf, "rebuild")
    ELSE write_index([name |-> fallback_name.name, offsets |-> <<>>, some |-> TRUE],
                     idx_buf, "create")

-----------------------------------------------------------------------------
(* The Writer specification: the chat client appends records to the log;   *)
(* FChatWriter::new is called on the log and its index file, any number of *)
(* times.  The index file starts out missing (empty) and is only ever      *)
(* written by the Writer.                                                  *)

\* records of two lengths on 1970-01-01 (00:00:00 and 23:59:59), 1970-01-02,
\* 1970-02-01, 2020-09-13 (1 600 050 000) and 2020-09-14 (1 600 100 000)
WriterMessages ==
    { FChatMessage(s, 0, <<65>>, "Message", <<>>) :
        s \in { Wide(0, 0), Wide(0, 86400), WideOf(1600050000), WideOf(1600100000) } }
    \cup
    { FChatMessage(s, 0, <<65>>, "Message", <<72>>) :
        s \in { Wide(0, 0), Wide(0, 86399), Wide(0, 2678400), WideOf(1600100000) } }

\* "room"
WriterNames == { NoName, SomeName(<<114, 111, 111, 109>>) }

WriterInit ==
    /\ log = <<>> /\ msgs = <<>> /\ phase = "build"
    /\ WriterIdle /\ ReaderIdle /\ CodecIdle /\ SizedIdle /\ IndexIdle

WriterAppend ==
    /\ LogAppend(WriterMessages)
    /\ UNCHANGED <<indexVars, writerVars, readerVars, codecVars, sizedVars>>

\* FChatWriter::new(log_path, Some(idx_path), fallback_name)
WriterNew ==
    /\ phase \in {"build", "damaged"}
    /\ \E name \in WriterNames :
          \E r \in { parse_idx(log, idx, name) } :
              /\ wname' = name
              /\ idx' = r.idx
              /\ index' = r.index
              /\ wstatus' = r.status
              /\ wpath' = r.path
              /\ wcount' = Len(msgs)
    /\ UNCHANGED <<indexVars, logVars, readerVars, codecVars, sizedVars>>

WriterNext == WriterAppend \/ WriterNew

SpecWriter == WriterInit /\ [][WriterNext]_vars

-----------------------------------------------------------------------------
(* The index codec specification: an index is written to an empty index    *)
(* file, header first and then the entries (as parse_idx does), the file   *)
(* may lose bytes at its end, and it is read back by                       *)
(* FChatIndexOffset::read_from_buf (placed after the header) and by        *)
(* FChatIndex::from_buf.                                                   *)

\* most entries of an index
MaxEntries == 2

Date(y, m, d) == [year |-> y, month |-> m, day |-> d]

IndexOffset(date, offset) == [date |-> date, offset |-> offset]

\* day 0, day 1, day 18518 and day 65535 with offsets 0, 11, 2^24 and
\* 2^40 - 1; the offsets 2^40 and 2^40 + 5; day 65536 and day -1
IndexEntries ==
    { IndexOffset(Date(1970, 1, 1), Wide(0, 0)),
      IndexOffset(Date(1970, 1, 2), Wide(0, 11)),
      IndexOffset(Date(2020, 9, 13), Wide(1, 0)),
      IndexOffset(Date(2149, 6, 6), Wide(65535, Limb - 1)),
      IndexOffset(Date(1970, 1, 1), Wide(65536, 0)),
      IndexOffset(Date(1970, 1, 2), Wide(65536, 5)),
      IndexOffset(Date(2149, 6, 7), Wide(0, 0)),
      IndexOffset(Date(1969, 12, 31), Wide(0, 0)) }

\* "" and "r"
IndexNames == { <<>>, <<114>> }

IndexInputs ==
    { [name |-> n, offsets |-> o, some |-> TRUE] :
        n \in IndexNames, o \in SeqsUpTo(IndexEntries, MaxEntries) }

IndexInit ==
    /\ ixin \in IndexInputs
    /\ ixbuf = <<>> /\ ixw = "none" /\ ixcut = 0
    /\ ixentry = NoEntryRes /\ ixall = NoAllRes
    /\ ixpc = "new"
    /\ CodecIdle /\ SizedIdle /\ LogIdle /\ ReaderIdle /\ WriterIdle

\* index.write_header_to_buf(&mut w)?;
\* for offset in &index.offsets { offset.write_to_buf(&mut w)? }
IndexWrite ==
    /\ ixpc = "new"
    /\ LET h == write_header_to_buf(ixin.name, ixbuf)
           w == IF h.status = "Ok" THEN write_offsets(ixin.offsets, 1, h.buf) ELSE h
       IN  /\ ixbuf' = w.buf
           /\ ixw' = w.status
           /\ ixpc' = IF w.status = "Ok" THEN "written" ELSE "failed"
    /\ UNCHANGED <<ixin, ixcut, ixentry, ixall>>
    /\ UNCHANGED <<codecVars, sizedVars, logVars, readerVars, writerVars>>

\* the index file loses its last k bytes
IndexCut ==
    /\ ixpc = "written"
    /\ ixentry = NoEntryRes /\ ixall = NoAllRes
    /\ \E k \in 1..Len(ixbuf) :
          /\ ixbuf' = SubSeq(ixbuf, 1, Len(ixbuf) - k)
          /\ ixcut' = k
    /\ ixpc' = "cut"
    /\ UNCHANGED <<ixin, ixw, ixentry, ixall>>
    /\ UNCHANGED <<codecVars, sizedVars, logVars, readerVars, writerVars>>

\* FChatIndexOffset::read_from_buf with the cursor just after the header
IndexReadEntry ==
    /\ ixpc \in {"written", "cut"}
    /\ ixentry = NoEntryRes
    /\ ixentry' = offset_read_from_buf(ixbuf, 1 + Len(ixin.name))
    /\ UNCHANGED <<ixin, ixbuf, ixw, ixcut, ixall, ixpc>>
    /\ UNCHANGED <<codecVars, sizedVars, logVars, readerVars, writerVars>>

\* FChatIndex::from_buf on the index file
IndexReadAll ==
    /\ ixpc \in {"written", "cut"}
    /\ ixall = NoAllRes
    /\ ixall' = from_buf(ixbuf)
    /\ UNCHANGED <<ixin, ixbuf, ixw, ixcut, ixentry, ixpc>>
    /\ UNCHANGED <<codecVars, sizedVars, logVars, readerVars, writerVars>>

IndexNext == IndexWrite \/ IndexCut \/ IndexReadEntry \/ IndexReadAll

SpecIndex == IndexInit /\ [][IndexNext]_vars

-----------------------------------------------------------------------------
(* The index-file specification: the Writer specification, with an index   *)
(* file that may lose its last bytes between two calls of FChatWriter::new *)
(* (a write that did not reach the disk in full).                          *)

\* the index file loses its last bytes
IndexFileCut ==
    /\ phase = "build"
    /\ idx # <<>>
    /\ \E k \in 1..MaxLost :
          /\ k <= Len(idx)
          /\ idx' = SubSeq(idx, 1, Len(idx) - k)
    /\ UNCHANGED <<index, wstatus, wpath, wcount, wname>>
    /\ UNCHANGED <<indexVars, logVars, readerVars, codecVars, sizedVars>>

IndexFileNext == WriterAppend \/ WriterNew \/ IndexFileCut

SpecIndexFile == WriterInit /\ [][IndexFileNext]_vars

-----------------------------------------------------------------------------
(* The damaged-log specification: a log of records is produced and then    *)
(* damaged once, by a changed byte or by the loss of its last bytes; after *)
(* that FChatWriter::new is called on it and the reverse reader reads it.  *)

\* a record of 1970-01-01, one of 1970-01-02 and an empty one
DamagedMessages ==
    { FChatMessage(Wide(0, 0), 0, <<65>>, "Message", <<72, 105>>),
      FChatMessage(Wide(0, 86400), 0, <<65>>, "Action", <<33>>),
      FChatMessage(Wide(0, 1), 0, <<>>, "Event", <<>>) }

\* the values a changed byte takes: no kind, and no byte of UTF-8 text
DamageValues == {6, 255}

DamagedInit ==
    /\ log = <<>> /\ msgs = <<>> /\ phase = "build"
    /\ WriterIdle /\ ReaderIdle /\ CodecIdle /\ SizedIdle /\ IndexIdle

DamagedAppend ==
    /\ LogAppend(DamagedMessages)
    /\ UNCHANGED <<indexVars, readerVars, codecVars, sizedVars, writerVars>>

\* one byte of the log changes, or the log loses its last bytes
LogDamage ==
    /\ phase = "build"
    /\ \/ \E i \in 1..Len(log), b \in DamageValues :
             /\ b # log[i]
             /\ log' = [log EXCEPT ![i] = b]
       \/ \E k \in 1..MaxLost :
             /\ k <= Len(log)
             /\ log' = SubSeq(log, 1, Len(log) - k)
    /\ phase' = "damaged"
    /\ UNCHANGED msgs
    /\ UNCHANGED <<indexVars, readerVars, codecVars, sizedVars, writerVars>>

DamagedNext ==
    DamagedAppend \/ LogDamage \/ WriterNew \/ ReadersNew \/ ReverseNext

SpecDamaged == DamagedInit /\ [][DamagedNext]_vars

-----------------------------------------------------------------------------
(* Claims checked under SpecCodec *)

\* the precondition of the round trip: whole seconds in [0, 2^32), sender of
\* at most 255 bytes, body and total length within the length fields
C1_ValidMessage(m) ==
    /\ m.datetime.nanos = 0
    /\ m.datetime.secs.hi >= 0 /\ m.datetime.secs.hi < 256
    /\ Len(m.sender) <= 255
    /\ Len(m.body.text) <= 65535
    /\ 8 + Len(m.sender) + Len(m.body.text) <= 65535

\* C1: a valid Message written to an empty stream and read back from
\* position 0 is written successfully and read successfully, with the same
\* timestamp, sender, kind and body text.
C1_RoundTrip ==
    (start = 0 /\ C1_ValidMessage(msg)) =>
        /\ (pc # "new" => wres = "Ok")
        /\ (pc = "read" /\ flip = NoFlip =>
               /\ res.status = "Ok"
               /\ res.msg.datetime.secs = msg.datetime.secs
               /\ res.msg.sender = msg.sender
               /\ res.msg.body.type = msg.body.type
               /\ res.msg.body.text = msg.body.text)

C1_Witness ==
    /\ pc = "read" /\ flip = NoFlip /\ start = 0
    /\ res.status = "Ok"
    /\ msg.datetime.secs = Wide(255, Limb - 1)
    /\ msg.sender = <<65, 65>>
    /\ msg.body = [type |-> "Event", text |-> <<195, 169>>]

\* the four observable fields of a Message
Fields(m) == <<m.datetime.secs, m.sender, m.body.type, m.body.text>>

\* C8 as stated: reading a record with one changed byte ends in
\* FrameMismatch, UnknownKind, Utf8Error or a failed read, never in a
\* Message.  (A short read is counted as the claim's IOError whatever name
\* ParseError::from gives it.)
C8_CorruptionDetected ==
    (pc = "read" /\ flip # NoFlip) =>
        res.status \in {"MessageLengthError", "UnknownMessageTypeError",
                        "UTF8ConversionError", "IOError", "EOF"}

\* C8 as amended: reading a record with one changed byte either fails or
\* returns a Message that differs from the original one; a changed byte of
\* the reverse feed always ends in MessageLengthError and a kind byte
\* changed to a value above 5 never yields a Message.
C8_ChangedByteNeverSameMessage ==
    (pc = "read" /\ flip # NoFlip) =>
        /\ res.status \in {"Ok", "MessageLengthError", "UnknownMessageTypeError",
                           "UTF8ConversionError", "EOF"}
        /\ (res.status = "Ok" => Fields(res.msg) # Fields(msg))
        /\ (flip.at > Len(stream) - start - 2 => res.status = "MessageLengthError")
        /\ (flip.at = 5 /\ stream[start + 5] > 5 => res.status # "Ok")

C8_Witness ==
    /\ pc = "read" /\ flip.at = 6
    /\ res.status = "Ok"
    /\ msg.body.text = <<0>>
    /\ res.msg.body.text = <<>>
    /\ res.msg.sender = Append(msg.sender, 1)

\* the kind byte of each variant, as the wire format lists them
C10_KindByte ==
    [Message |-> 0, Action |-> 1, Ad |-> 2, Roll |-> 3, Warn |-> 4, Event |-> 5]

\* C10: a successful write appends exactly 4+1+1+len(sender)+2+len(body)+2
\* bytes: epoch seconds (u32 LE), kind byte, sender length, sender, body
\* length (u16 LE), body, reverse feed (u16 LE) = 4+1+1+len(sender)+2+len(body);
\* the bytes already in the stream stay as they were.
C10_WireFormat ==
    (wres = "Ok" /\ flip = NoFlip) =>
        LET s == Len(msg.sender)
            b == Len(msg.body.text)
            rec(i) == stream[start + i]
        IN  /\ Len(stream) = start + 4 + 1 + 1 + s + 2 + b + 2
            /\ (start = 1 => stream[1] = 7)
            /\ rec(1) + 256 * rec(2) + 65536 * rec(3) = msg.datetime.secs.lo
            /\ rec(4) = msg.datetime.secs.hi
            /\ rec(5) = C10_KindByte[msg.body.type]
            /\ rec(6) = s
            /\ \A i \in 1..s : rec(6 + i) = msg.sender[i]
            /\ rec(7 + s) + 256 * rec(8 + s) = b
            /\ \A i \in 1..b : rec(8 + s + i) = msg.body.text[i]
            /\ rec(9 + s + b) + 256 * rec(10 + s + b) = 4 + 1 + 1 + s + 2 + b
            /\ \A i \in 1..(10 + s + b) : rec(i) \in 0..255

\* an empty sender and an empty body are written, after one existing byte
C10_Witness ==
    /\ wres = "Ok" /\ pc = "written" /\ start = 1
    /\ msg.sender = <<>> /\ msg.body.text = <<>>
    /\ Len(stream) = 11

-----------------------------------------------------------------------------
(* Claims checked under SpecSized *)

\* C9: read_from_buf returns MessageLengthError exactly when every field
\* before the reverse feed was read and parsed and the reverse feed differs
\* from 4+1+1+len(sender)+2+len(body); the error carries the Message,
\* expected = the reverse feed found and found = the computed length; when
\* the two are equal the Message is returned.
C9_FrameCheck ==
    (szin.op = "read" /\ szout # NoSized) =>
        LET actual == 4 + 1 + 1 + szin.sender_len + 2 + szin.body_len
            parsed == szin.cut = 0 /\ szin.kind <= 5
        IN  /\ (szout.status = "MessageLengthError")
                  <=> (parsed /\ szin.feed # actual)
            /\ (szout.status = "MessageLengthError" =>
                  /\ szout.expected = szin.feed
                  /\ szout.found = actual
                  /\ szout.sender_len = szin.sender_len
                  /\ szout.body_len = szin.body_len)
            /\ (parsed /\ szin.feed = actual => szout.status = "Ok")

\* the number of bytes of the stream SizedRead reads from
C11_StreamLen == 4 + 1 + 1 + szin.sender_len + 2 + szin.body_len + 2 - szin.cut

\* C11: read_from_buf reports EndOfStream (ParseError::EOF) only when fewer
\* than 4 bytes are left for the timestamp; when the stream ends later in the
\* record (and no other error comes first) it reports IOError.
C11_EOFOnlyAtBoundary ==
    (szin.op = "read" /\ szout # NoSized) =>
        /\ (szout.status = "EOF" => C11_StreamLen < 4)
        /\ ( (C11_StreamLen >= 4 /\ szin.cut > 0 /\ ~(szin.kind > 5 /\ szin.cut <= 2))
               => szout.status = "IOError" )

\* the three range checks of the fields of a Message
C12_Overflows ==
    \/ szin.sender_len > 255
    \/ szin.body_len > 65535
    \/ szin.secs.hi < 0
    \/ szin.secs.hi >= 256

\* C12: write_to_buf fails with ConversionError, and never succeeds, when
\* the sender is longer than 255 bytes, the body longer than 65535 bytes or
\* the timestamp is before the epoch or at or after epoch + 2^32 seconds;
\* nothing is written then.
C12_EncodeRangeChecks ==
    (szin.op = "write" /\ szout # NoSized /\ C12_Overflows) =>
        /\ szout.status = "ConversionError"
        /\ szout.len = 0

\* a sender of 256 bytes, everything else in range
C12_Witness ==
    /\ szin.op = "write" /\ szout # NoSized
    /\ szin.sender_len = 256 /\ szin.body_len = 0 /\ szin.secs = Wide(0, 0)
    /\ szout.status = "ConversionError"

\* the on-disk length of a record as the size invariant counts it
C13_EncodedLen == 4 + 1 + 1 + szin.sender_len + 2 + szin.body_len + 2

\* C13: a successful write_to_buf writes 4+1+1+len(sender)+2+len(body)+2
\* bytes and that number is at most 65535; write_to_buf fails with
\* ConversionError whenever that number exceeds 65535.
C13_RecordSizeBound ==
    (szin.op = "write" /\ szout # NoSized) =>
        /\ (szout.status = "Ok" =>
               szout.len = C13_EncodedLen /\ szout.len <= 65535)
        /\ (C13_EncodedLen > 65535 => szout.status = "ConversionError")

\* the value of the reverse feed: the record without the feed itself
C13_FeedValue == 4 + 1 + 1 + szin.sender_len + 2 + szin.body_len

\* C13 as amended: a successful write_to_buf writes
\* 4+1+1+len(sender)+2+len(body)+2 bytes, of which the first
\* 4+1+1+len(sender)+2+len(body), the value of the reverse feed, are at most
\* 65535 (so the record is at most 65537 bytes); write_to_buf fails with
\* ConversionError whenever 4+1+1+len(sender)+2+len(body) exceeds 65535.
C13_FeedSizeBound ==
    (szin.op = "write" /\ szout # NoSized) =>
        /\ (szout.status = "Ok" =>
               /\ szout.len = C13_FeedValue + 2
               /\ C13_FeedValue <= 65535
               /\ szout.feed = C13_FeedValue)
        /\ (C13_FeedValue > 65535 => szout.status = "ConversionError")

\* the largest record: a reverse feed of 65535, 65537 bytes on disk
C13_Witness ==
    /\ szin.op = "write" /\ szin.sender_len = 0 /\ szin.body_len = 65527
    /\ szout # NoSized /\ szout.status = "Ok" /\ szout.len = 65537

\* one of the four ranges write_to_buf checks is exceeded
C22_OutOfRange ==
    \/ szin.secs.hi < 0 \/ szin.secs.hi >= 256
    \/ szin.sender_len > 255
    \/ szin.body_len > 65535
    \/ 4 + 1 + 1 + szin.sender_len + 2 + szin.body_len > 65535

\* C22: write_to_buf fails with ConversionError exactly when the timestamp,
\* the sender length, the body length or the total length is out of range,
\* and then the stream holds the bytes it held before the call and no more.
C22_FailedEncodeWritesNothing ==
    (szin.op = "append" /\ szout # NoSized) =>
        /\ (szout.status = "ConversionError") <=> C22_OutOfRange
        /\ (szout.status = "ConversionError" => szout.len = 1 /\ szout.head = 7)
        /\ szout.head = 7

\* every field in range, the total length one byte too long
C22_Witness ==
    /\ szin.op = "append" /\ szout # NoSized
    /\ szin.secs = Wide(0, 86401) /\ szin.sender_len = 255 /\ szin.body_len = 65273
    /\ szout.status = "ConversionError" /\ szout.len = 1

-----------------------------------------------------------------------------
(* Claims checked under SpecReader *)

\* the length of the record of a Message, its reverse feed included
RecordLen(m) == 4 + 1 + 1 + Len(m.sender) + 2 + Len(m.body.text) + 2

\* the offset of the first byte after the k-th record of the log
RECURSIVE RecordEnd(_)
RecordEnd(k) == IF k = 0 THEN 0 ELSE RecordEnd(k - 1) + RecordLen(msgs[k])

\* C2: reading the records of a log of well-formed records one after
\* another and writing each Message read, in order, to a fresh stream gives
\* a stream with the same bytes as the log up to every record boundary, and
\* so the whole log once every record has been read.
C2_ByteExact ==
    (phase = "read") =>
        /\ cstatus = "Ok"
        /\ \E k \in 0..Len(msgs) : cpos = RecordEnd(k)
        /\ Len(copy) = cpos
        /\ copy = SubSeq(log, 1, cpos)
        /\ (cpos = Len(log) => copy = log)

C2_Witness ==
    /\ phase = "read" /\ cpos = Len(log) /\ copy = log
    /\ Len(msgs) >= 2 /\ msgs[1] # msgs[2]
    /\ msgs[1].body.type = "Action"

RECURSIVE Reverse(_)
Reverse(q) == IF q = <<>> THEN <<>> ELSE Append(Reverse(Tail(q)), Head(q))

\* the items the forward reader yielded before its first EOF item
RECURSIVE BeforeEOF(_)
BeforeEOF(items) ==
    IF items = <<>> \/ Head(items).status = "EOF" THEN <<>>
    ELSE <<Head(items)>> \o BeforeEOF(Tail(items))

ForwardAtEOF == \E i \in 1..Len(fitems) : fitems[i].status = "EOF"

\* C3: on a log of n well-formed records the reverse reader, started at the
\* end of the stream, yields exactly n items before it returns None, and
\* they are the Messages the forward reader yields before EndOfStream, in
\* reverse order.
C3_ReverseIsReversedForward ==
    (phase = "read" /\ rnone > 0 /\ ForwardAtEOF) =>
        /\ Len(ritems) = Len(msgs)
        /\ \A i \in 1..Len(ritems) : ritems[i].status = "Ok"
        /\ ritems = Reverse(BeforeEOF(fitems))

C3_Witness ==
    /\ phase = "read" /\ rnone > 0 /\ ForwardAtEOF
    /\ Len(ritems) >= 2
    /\ ritems[1].msg # ritems[2].msg
    /\ ritems[1].msg = fitems[Len(ritems)].msg

\* C4: the forward reader stops producing items the first time the decoder
\* reports EndOfStream on the initial 4-byte read: EndOfStream is the end of
\* the sequence, never an item of it.
C4_ForwardTerminates ==
    \A i \in 1..Len(fitems) : fitems[i].status # "EOF"

\* C20: on a log of well-formed records the cursor of the reverse reader
\* is, after each item, on the first byte of the record just yielded; once
\* the record at offset 0 has been yielded the cursor is 0, and every later
\* call yields nothing and leaves it at 0.  On an empty log the first call
\* yields nothing.
C20_ReverseCursor ==
    (phase = "read") =>
        /\ Len(ritems) <= Len(msgs)
        /\ rpos = RecordEnd(Len(msgs) - Len(ritems))
        /\ \A i \in 1..Len(ritems) :
               /\ ritems[i].status = "Ok"
               /\ Fields(ritems[i].msg) = Fields(msgs[Len(msgs) + 1 - i])
        /\ (rnone > 0 => rpos = 0 /\ Len(ritems) = Len(msgs))
        /\ (Len(msgs) = 0 => ritems = <<>>)

\* three records read backwards, then two calls that yield nothing
C20_Witness ==
    /\ phase = "read" /\ Len(msgs) = 3 /\ Len(ritems) = 3
    /\ rnone = 2 /\ rpos = 0
    /\ RecordLen(msgs[1]) # RecordLen(msgs[3])

-----------------------------------------------------------------------------
(* Claims checked under SpecWriter *)

\* the cursor after SeekFrom::Start(offset)
SeekStart(offset) == IF offset.hi > 0 THEN Len(log) + 1 ELSE offset.lo

\* C5: after a successful FChatWriter::new, by parsing the index file or by
\* rebuilding it from the log, reading one record at the offset of any
\* entry of the index succeeds and gives a Message whose calendar date is
\* the date of the entry.
C5_IndexSound ==
    (wstatus = "Ok") =>
        \A k \in 1..Len(index.offsets) :
            LET e == index.offsets[k]
                r == read_from_buf(log, SeekStart(e.offset))
            IN  /\ r.status = "Ok"
                /\ date_of(r.msg.datetime) = e.date

\* an index of two entries read back from the index file, the log having
\* grown since the file was written
C5_Witness ==
    /\ wstatus = "Ok" /\ wpath = "parse"
    /\ Len(index.offsets) >= 2
    /\ Len(msgs) > Len(index.offsets)

DateLess(a, b) ==
    \/ a.year < b.year
    \/ (a.year = b.year /\ a.month < b.month)
    \/ (a.year = b.year /\ a.month = b.month /\ a.day < b.day)

WideLess(a, b) == a.hi < b.hi \/ (a.hi = b.hi /\ a.lo < b.lo)

\* C6: the entries of the index a Writer built from a log are strictly
\* increasing in date and in offset, whatever the order of the timestamps
\* in the log.
C6_IndexMonotone ==
    (wstatus = "Ok" /\ wpath = "rebuild") =>
        \A i, j \in 1..Len(index.offsets) :
            i < j => /\ DateLess(index.offsets[i].date, index.offsets[j].date)
                     /\ WideLess(index.offsets[i].offset, index.offsets[j].offset)

\* the day of a Message, in days since 1970-01-01
C7_Day(m) == (m.datetime.secs.hi * Limb + m.datetime.secs.lo) \div 86400

\* the k-th Message of the log is the first one or starts a new day
C7_StartsDay(k) == k = 1 \/ C7_Day(msgs[k]) # C7_Day(msgs[k - 1])

\* C7: the index built from a log of well-formed records has an entry for
\* a Message exactly when it is the first one or its date differs from the
\* date of the Message before it; the entry has the date of the Message and
\* the sum of the record lengths of the Messages before it as offset.  So
\* the first entry has offset 0 and every Message located between two
\* consecutive entry offsets has the date of the earlier entry.
C7_IndexConstruction ==
    (wstatus = "Ok" /\ wpath = "rebuild") =>
        LET entries == index.offsets
            starts  == { k \in 1..wcount : C7_StartsDay(k) }
            Entry(k) == [date   |-> civil_from_days(C7_Day(msgs[k])),
                         offset |-> Wide(0, RecordEnd(k - 1))]
        IN  /\ Len(entries) = Cardinality(starts)
            /\ \A k \in starts : \E i \in 1..Len(entries) : entries[i] = Entry(k)
            /\ \A i \in 1..Len(entries) : \E k \in starts : entries[i] = Entry(k)
            /\ \A i \in 1..(Len(entries) - 1) :
                   WideLess(entries[i].offset, entries[i + 1].offset)
            /\ (wcount > 0 => entries[1].offset = Wide(0, 0))
            /\ \A k \in 1..wcount : \A i \in 1..Len(entries) :
                   ( /\ entries[i].offset.lo <= RecordEnd(k - 1)
                     /\ (i < Len(entries) =>
                            RecordEnd(k - 1) < entries[i + 1].offset.lo) )
                   => days_from_civil(entries[i].date) = C7_Day(msgs[k])

\* the three Messages of scenario S4 up to body text: two of 2020-09-13..14
\* after one of an earlier day
C7_Witness ==
    /\ wstatus = "Ok" /\ wpath = "rebuild" /\ wcount = Len(msgs)
    /\ Len(index.offsets) = 2
    /\ wcount >= 2
    /\ index.offsets[2].date = [year |-> 2020, month |-> 9, day |-> 14]
    /\ index.offsets[2].offset.lo > 0

\* the name in the header of an index file
C17_Name(buf) == SubSeq(buf, 2, 1 + buf[1])

\* the k-th entry of an index file
C17_Entry(buf, k) ==
    LET base == 1 + buf[1] + 7 * (k - 1)
    IN  [date   |-> civil_from_days(buf[base + 1] + 256 * buf[base + 2]),
         offset |-> Wide(buf[base + 6] + 256 * buf[base + 7],
                         buf[base + 3] + 256 * buf[base + 4] + 65536 * buf[base + 5])]

\* the entries of an index file
C17_Entries(buf) == [k \in 1..((Len(buf) - 1 - buf[1]) \div 7) |-> C17_Entry(buf, k)]

\* C17: FChatWriter::new fails with InadequateInformation exactly when the
\* index file is empty and no name is given; on a non-empty index file it
\* succeeds with or without a name, its index has the name and the entries
\* of the file, and neither the log nor the index file is changed.
C17_InadequateInformation ==
    [][ (log' = log) =>
            /\ (wstatus' = "InadequateInformation")
                    <=> (idx = <<>> /\ ~wname'.some)
            /\ (idx # <<>> =>
                    /\ wstatus' = "Ok"
                    /\ index'.name = C17_Name(idx)
                    /\ index'.offsets = C17_Entries(idx)
                    /\ idx' = idx
                    /\ log' = log) ]_vars

\* a Writer opened without a name on an index file of two entries
C17_Witness ==
    /\ wstatus = "Ok" /\ wpath = "parse" /\ ~wname.some
    /\ Len(index.offsets) >= 2

-----------------------------------------------------------------------------
(* Claims checked under SpecDamaged *)

\* reading the log record by record from pos meets a record that fails to
\* decode, other than by the end of the stream at a record boundary
RECURSIVE C18_BadRecordFrom(_)
C18_BadRecordFrom(pos) ==
    LET r == read_from_buf(log, pos)
    IN  IF r.status = "Ok" THEN C18_BadRecordFrom(r.pos)
        ELSE ~(r.status = "EOF" /\ pos = Len(log))

\* C18: FChatWriter::new, building the index from a log in which a record
\* fails to decode (other than by the end of the stream at a record
\* boundary), does not succeed.
C18_RebuildPropagatesErrors ==
    [][ (log' = log /\ idx = <<>> /\ wname'.some /\ Len(log) > 0
            /\ C18_BadRecordFrom(0))
        => wstatus' # "Ok" ]_vars

\* a step of the reverse reader that starts off the beginning of the stream
\* and fails to seek back over a record or to decode it
C19_StepFails ==
    /\ rpos > 0
    /\ LET s == reverse_seek(log, rpos)
       IN  ~s.ok \/ read_from_buf(log, s.pos).status # "Ok"

\* C19: a call of the reverse reader's next() that meets an I/O error or a
\* record that fails to decode yields that error as an item.
C19_ReverseSurfacesErrors ==
    [][ (phase = "read" /\ (rnone' # rnone \/ ritems' # ritems) /\ C19_StepFails)
        => /\ Len(ritems') = Len(ritems) + 1
           /\ ritems'[Len(ritems')].status # "Ok" ]_vars

-----------------------------------------------------------------------------
(* Claims checked under SpecIndex *)

\* C14: writing an index entry whose offset exceeds 2^40 - 1 fails with
\* ConversionError; the write never succeeds on such an entry.
C14_OffsetRangeCheck ==
    (ixpc # "new" /\ \E k \in 1..Len(ixin.offsets) :
                        ixin.offsets[k].offset.hi >= 65536)
        => ixw = "ConversionError"

\* the days since 1970-01-01 of the dates of IndexEntries that fit 16 bits
C15_Days(date) ==
    CASE date = Date(1970, 1, 1)  -> 0
      [] date = Date(1970, 1, 2)  -> 1
      [] date = Date(2020, 9, 13) -> 18518
      [] date = Date(2149, 6, 6)  -> 65535
      [] OTHER                    -> -1

\* a date from 1970-01-01 to 65535 days later and an offset below 2^40
C15_ValidEntry(e) ==
    /\ C15_Days(e.date) >= 0
    /\ e.offset.hi < 65536

\* the 7 bytes of an entry: days (u16 LE), then the offset's 5 low bytes,
\* least significant first
C15_EntryBytes(e) ==
    << C15_Days(e.date) % 256, C15_Days(e.date) \div 256,
       e.offset.lo % 256, (e.offset.lo \div 256) % 256, e.offset.lo \div 65536,
       e.offset.hi % 256, e.offset.hi \div 256 >>

\* C15: entries with a date from 1970-01-01 to 65535 days later and an
\* offset below 2^40 are written successfully as 7 bytes each (u16 LE days
\* since the epoch, then the offset's 5 low bytes, least significant first),
\* and reading them back returns the same dates and offsets, the upper 3
\* bytes of each offset zero.
C15_EntryRoundTrip ==
    (ixpc # "new" /\ \A k \in 1..Len(ixin.offsets) : C15_ValidEntry(ixin.offsets[k])) =>
        LET n    == Len(ixin.offsets)
            base == 1 + Len(ixin.name)
        IN  /\ ixw = "Ok"
            /\ ixcut = 0 =>
                  /\ Len(ixbuf) = base + 7 * n
                  /\ \A k \in 1..n :
                        SubSeq(ixbuf, base + 7 * (k - 1) + 1, base + 7 * k)
                            = C15_EntryBytes(ixin.offsets[k])
                  /\ (ixentry # NoEntryRes /\ n > 0 =>
                        /\ ixentry.status = "Ok"
                        /\ ixentry.entry = ixin.offsets[1]
                        /\ ixentry.entry.offset.hi < 65536)
                  /\ (ixall # NoAllRes =>
                        /\ ixall.status = "Ok"
                        /\ ixall.index.offsets = ixin.offsets)

\* the last day and the largest offset, after an entry of 2^24
C15_Witness ==
    /\ ixcut = 0 /\ ixall.status = "Ok" /\ ixentry.status = "Ok"
    /\ Len(ixall.index.offsets) = 2
    /\ ixall.index.offsets[1] = IndexOffset(Date(2020, 9, 13), Wide(1, 0))
    /\ ixall.index.offsets[2] = IndexOffset(Date(2149, 6, 6), Wide(65535, Limb - 1))

\* the bytes of the index file after its header
C16_Rest == Len(ixbuf) - 1 - Len(ixin.name)

\* C16: on an index file that ends early, read_from_buf of an entry gives
\* the end-of-stream result (the one from_buf ends its loop on) only when
\* the 2 bytes of the day count are not both there, and from_buf returns
\* the name and the whole entries only when the file ends on an entry
\* boundary or inside a day count; when the file ends after the day count,
\* inside the 5 offset bytes, both fail with IOError.
C16_IndexEndOfStream ==
    (ixpc = "cut" /\ C16_Rest >= 0) =>
        /\ (ixentry # NoEntryRes /\ C16_Rest < 7 =>
               IF C16_Rest < 2 THEN ixentry.status = "UnexpectedEof"
                               ELSE ixentry.status = "IOError")
        /\ (ixall # NoAllRes =>
               IF C16_Rest % 7 < 2
               THEN /\ ixall.status = "Ok"
                    /\ ixall.index.name = ixin.name
                    /\ ixall.index.offsets = SubSeq(ixin.offsets, 1, C16_Rest \div 7)
               ELSE ixall.status = "IOError")

-----------------------------------------------------------------------------
(* Claims checked under SpecIndexFile *)

\* the 7 bytes of an index entry
C21_EntryBytes(e) ==
    LET days == days_from_civil(e.date)
    IN  << days % 256, days \div 256,
           e.offset.lo % 256, (e.offset.lo \div 256) % 256, e.offset.lo \div 65536,
           e.offset.hi % 256, e.offset.hi \div 256 >>

RECURSIVE C21_EntriesBytes(_)
C21_EntriesBytes(offsets) ==
    IF offsets = <<>> THEN <<>>
    ELSE C21_EntryBytes(Head(offsets)) \o C21_EntriesBytes(Tail(offsets))

\* the header for the name of an index, then its entries in order
C21_IndexBytes(ix) == << Len(ix.name) >> \o ix.name \o C21_EntriesBytes(ix.offsets)

\* C21: after every successful FChatWriter::new, on the create, the rebuild
\* and the parse path, the index file holds exactly the header for
\* index.name followed by the encodings of index.offsets in order.
C21_LockStep ==
    [][ (log' = log /\ Len(idx') >= Len(idx) /\ wstatus' = "Ok")
        => idx' = C21_IndexBytes(index') ]_vars

====
